---- MODULE Spec2Model ----
(***************************************************************************)
(* Reset / halt-after-reset sequences of the Infineon XMC4000 provider     *)
(* (probe-rs/src/architecture/arm/sequences/infineon.rs).                  *)
(*                                                                         *)
(* A u32 is kept as two 16-bit halves, [hi, lo], so that every register    *)
(* word, 0xFFFF_FFFF included, is represented exactly.  Time is counted in *)
(* units of 100 ms.                                                        *)
(***************************************************************************)
EXTENDS Integers, Naturals, Sequences, FiniteSets, TLC

---------------------------------------------------------------------------
(* 32-bit words                                                            *)

Half == 2 ^ 16

W(h, l) == [hi |-> h, lo |-> l]

Zero32 == W(0, 0)

AllOnes == W(\hFFFF, \hFFFF)

\* bit n (0..31) of word w, as 0 or 1
Bit(w, n) ==
    IF n < 16 THEN (w.lo \div (2 ^ n)) % 2
              ELSE (w.hi \div (2 ^ (n - 16))) % 2

\* word w with bit n forced to b (0 or 1)
WithBit(w, n, b) ==
    IF n < 16
      THEN [w EXCEPT !.lo = (w.lo - Bit(w, n) * (2 ^ n)) + b * (2 ^ n)]
      ELSE [w EXCEPT !.hi = (w.hi - Bit(w, n) * (2 ^ (n - 16))) + b * (2 ^ (n - 16))]

B2N(b) == IF b THEN 1 ELSE 0

\* u32 addition of 1 with wrap-around (what a release build computes)
WrappingAdd1(w) ==
    IF w.lo < Half - 1 THEN W(w.hi, w.lo + 1)
    ELSE W((w.hi + 1) % Half, 0)

\* v as u8 (the truncating cast)
AsU8(w) == w.lo % 256

---------------------------------------------------------------------------
(* Register bitfields                                                      *)

\* Stcon.swcon: bits 11..8
Stcon_swcon(w) == (w.lo \div 256) % 16

\* Stcon.hwcon: bits 1..0 (read only)
Stcon_hwcon(w) == w.lo % 4

\* Stcon.set_swcon(v): bits 11..8 replaced, every other bit kept
Stcon_set_swcon(w, v) ==
    [w EXCEPT !.lo = (w.lo - Stcon_swcon(w) * 256) + (v % 16) * 256]

\* FpCtrl.enable: bit 0        FpCtrl key: bit 1        FpCtrl.rev: bits 31..28
FpCtrl_enable(w) == Bit(w, 0) = 1

FpCtrl_rev(w) == w.hi \div 4096

FpCtrl_set_enable(w, b) == WithBit(w, 0, B2N(b))

FpCtrl_set_key(w, b) == WithBit(w, 1, B2N(b))

\* Dhcsr.s_reset_st: bit 25      Dhcsr.s_halt: bit 17
Dhcsr_s_reset_st(w) == Bit(w, 25) = 1

Dhcsr_s_halt(w) == Bit(w, 17) = 1

\* Pins(u8): nreset bit 7, swdio_tms bit 1, swclk_tck bit 0
Pins_nreset(p) == (p \div 128) % 2 = 1

Pins_swdio_tms(p) == (p \div 2) % 2 = 1

Pins_swclk_tck(p) == p % 2 = 1

Pins_set(p, n, b) == (p - ((p \div (2 ^ n)) % 2) * (2 ^ n)) + B2N(b) * (2 ^ n)

\* Aircr.vectkey(): writes the key 0x05FA into bits 31..16
Aircr_vectkey(w) == [w EXCEPT !.hi = \h05FA]

\* Aircr.set_sysresetreq: bit 2
Aircr_set_sysresetreq(w, b) == WithBit(w, 2, B2N(b))

---------------------------------------------------------------------------
(* Breakpoint comparator encodings (armv7m::FpRev1CompX / FpRev2CompX)     *)

\* FPB revision 1 comparator: REPLACE bits 31..30, COMP bits 28..2, ENABLE
\* bit 0.  Addresses at or above 0x2000_0000 cannot be matched and are
\* refused.  REPLACE is 01 (lower half-word) for a word-aligned address and
\* 10 (upper half-word) otherwise.
FpRev1CompX_breakpoint_configuration(address) ==
    IF address.hi >= \h2000
      THEN [ok |-> FALSE, val |-> Zero32]
      ELSE [ok |-> TRUE,
            val |-> W(address.hi + (IF address.lo % 4 = 0 THEN \h4000 ELSE \h8000),
                      (address.lo - (address.lo % 4)) + 1)]

\* FPB revision 2 comparator: BPADDR bits 31..1 = address >> 1, BE bit 0
FpRev2CompX_breakpoint_configuration(address) ==
    W(address.hi, (address.lo - (address.lo % 2)) + 1)

---------------------------------------------------------------------------
(* Fixed addresses and durations                                           *)

Stcon_ADDRESS == W(\h5000, \h4010)

VECTOR_ADDRESS == W(\h0C00, \h0004)

FpCtrl_ADDRESS == W(\hE000, \h2000)

FpRev1CompX_ADDRESS == W(\hE000, \h2008)

RSTCLR_ADDRESS == W(\h5000, \h4408)

Aircr_ADDRESS == W(\hE000, \hED0C)

Dhcsr_ADDRESS == W(\hE000, \hEDF0)

SCU_ID_ADDRESS == W(\h5000, \h4000)

\* the pin-control boundary is not an address; it is logged under this tag
SWJ_PINS == W(0, 0)

\* durations in units of 100 ms
ResetTimeout == 5

DapsaTimeout == 5

HaltTimeout == 10

DeassertWindow == 10

PollSleep == 1

SettleDelay == 1

\* elapsed time is kept up to one unit past the longest deadline; beyond
\* that every comparison of the code gives the same answer
SatElapsed == HaltTimeout + 1

Min(a, b) == IF a < b THEN a ELSE b

---------------------------------------------------------------------------
(* Bounds and input sets                                                   *)

\* not-ready polls one loop may make before its deadline has passed
MaxPolls == 1

\* contexts that may call hooks of the one provider
MaxContexts == 3

Contexts == 1..MaxContexts

\* the boot-configuration word at attach: software field nonzero, the
\* power-on-latched field and unrelated bits mixed (the first reset_catch_set
\* that gets to write it leaves the software field zero for the later ones)
StconValues == {W(\hA5A5, \h5F5A)}

\* breakpoint control register at attach: REV in bits 31..28, NUM_LIT 2,
\* NUM_CODE 6, unit enabled (reset_catch_clear without a capture disables it)
FpCtrlValues == {W(rev * 4096, \h0261) : rev \in {0, 1, 2}}

\* comparator slot 0 at attach: a breakpoint a user had set
\* (reset_catch_clear without a capture zeroes it)
FpComp0Values == {W(\h4800, \h1235)}

\* reset-vector words: even, odd with a carry into the upper half, the
\* largest even word, and erased flash
VectorValues == {W(\h0C00, \h0100), W(\h0C00, \hFFFF), W(\hFFFF, \hFFFE), AllOnes}

\* DHCSR: reset seen and running, running, halted
DhcsrValues == {W(\h0200, \h0001), W(0, \h0001), W(\h0002, \h0003)}

\* SCU module id: gated (reads zero) or readable
ScuIdValues == {Zero32, W(\h0080, \hC000)}

\* swj_pins readback: unsupported, reset line high, reset line low
PinReadbacks == {AllOnes, W(0, \h0082), W(0, \h0002)}

---------------------------------------------------------------------------
(* State                                                                   *)

VARIABLES
    halt_after_reset_state,  \* Mutex<Option<HaltAfterResetState>>: <<>> or <<record>>
    mem,                     \* the target registers the hooks read back
    ctx,                     \* per calling context: the running hook's frame
    active,                  \* the contexts that call hooks
    armed,                   \* history: registers as they were before the
                             \* last reset_catch_set that returned Ok
    history,                 \* history: "fresh" after construction, then the
                             \* last of reset_catch_set / reset_catch_clear
                             \* that returned, "void" once any call failed
    handed,                  \* history: the number of reset_catch_clear calls
                             \* the record in the slot was handed to
    halt_watch               \* stopwatch on reset_system's halt loop, kept
                             \* only by WatchSpec: what the loop's clock
                             \* showed when the loop began, and how long the
                             \* loop had run when it returned Timeout

vars == <<halt_after_reset_state, mem, ctx, active, armed, history, handed,
          halt_watch>>

None == <<>>

Some(x) == <<x>>

HaltAfterResetState(en, comp) == [fpctrl_enabled |-> en, fpcomp0 |-> comp]

\* a variant whose default has the breakpoint unit enabled
HaltAfterResetState_enabled == HaltAfterResetState(TRUE, Zero32)

\* #[derive(Default)]
HaltAfterResetState_default == HaltAfterResetState(FALSE, Zero32)

\* one transport operation, as issued by a hook
Op(kind, addr, val, ok) ==
    [op |-> kind, addr |-> addr, val |-> val, ok |-> ok, out |-> 0, sel |-> 0]

PinOp(out, sel, readback, ok) ==
    [op |-> "pins", addr |-> SWJ_PINS, val |-> readback, ok |-> ok,
     out |-> out, sel |-> sel]

NoWatch == [start |-> 0, waited |-> 0]

\* the frame of a context that runs no hook
IdleCtx ==
    [hook |-> "none", pc |-> "idle", result |-> "none", log |-> <<>>,
     elapsed |-> 0, polls |-> 0, slept |-> 0,
     stcon |-> Zero32, vector |-> Zero32, application_entry |-> Zero32,
     fp_ctrl |-> Zero32, fpcomp0 |-> Zero32,
     stored |-> FALSE, replaced |-> None, original_state |-> HaltAfterResetState_default,
     can_read_pins |-> FALSE, halt_wanted |-> FALSE,
     before |-> None, roundtrip |-> None, entry_state |-> None]

Logged(c, e) == [c EXCEPT !.log = Append(@, e)]

\* the hook returns r; its clock and loop counter die with its frame
Return(c, r) == [c EXCEPT !.pc = "done", !.result = r, !.elapsed = 0, !.polls = 0]

\* a variant that logs the failure and tries the operation again
Fail_Retry(c, e) == Logged(c, e)

\* the `?` operator: a failed transport operation ends the hook with its error
Fail(c, e) == Return(Logged(c, e), "Transport")

Goto(c, pc) == [c EXCEPT !.pc = pc]

---------------------------------------------------------------------------
(* The target behind the memory handle                                     *)

\* a write that reached the target
HwWrite(m, addr, val) ==
    IF addr = Stcon_ADDRESS
      THEN [m EXCEPT !.stcon =
                [val EXCEPT !.lo = (val.lo - Stcon_hwcon(val)) + Stcon_hwcon(m.stcon)]]
    ELSE IF addr = FpCtrl_ADDRESS
      THEN IF Bit(val, 1) = 1
             THEN [m EXCEPT !.fpctrl = WithBit(m.fpctrl, 0, Bit(val, 0))]
             ELSE m
    ELSE IF addr = FpRev1CompX_ADDRESS
      THEN [m EXCEPT !.fpcomp0 = val]
    ELSE m

Init ==
    /\ halt_after_reset_state = None
    /\ mem \in [stcon : StconValues, fpctrl : FpCtrlValues, fpcomp0 : FpComp0Values]
    /\ ctx = [t \in Contexts |-> IdleCtx]
    /\ active = {1}
    /\ armed = None
    /\ history = "fresh"
    /\ handed = 0
    /\ halt_watch = [t \in Contexts |-> NoWatch]

\* the history after a step of context t: a call that returned anything but
\* Ok voids it for good, a capture or restore that returned Ok is remembered
Observed(h, c) ==
    IF c.pc # "done" THEN h
    ELSE IF c.result # "Ok" \/ h = "void" THEN "void"
    ELSE IF c.hook \in {"reset_catch_set", "reset_catch_clear"} THEN c.hook
    ELSE h

Callable(t) == t \in active /\ ctx[t].pc \in {"idle", "done"}

---------------------------------------------------------------------------
(* reset_catch_set                                                         *)

\* a variant that rewrites the register whatever it read
NeedsNormalBoot_Always(stcon) == TRUE

\* if stcon.swcon() != 0
NeedsNormalBoot(stcon) == Stcon_swcon(stcon) # 0

\* let mut stcon = stcon; stcon.set_swcon(0);
NormalBoot(stcon) == Stcon_set_swcon(stcon, 0)

\* a variant that forgets the + 1
ApplicationEntry_NoThumbBit(v) == {[panic |-> FALSE, val |-> v]}

\* core.read_word_32(0x0C000004)? + 1: the outcomes of the u32 addition.
\* On 0xFFFF_FFFF a build with overflow checks panics and one without wraps.
ApplicationEntry(v) ==
    IF v = AllOnes
      THEN {[panic |-> TRUE, val |-> Zero32], [panic |-> FALSE, val |-> WrappingAdd1(v)]}
      ELSE {[panic |-> FALSE, val |-> WrappingAdd1(v)]}

\* a variant that keeps a record already present (get_or_insert)
Replace_KeepOld(slot, new) == IF slot = None THEN Some(new) ELSE slot

\* a variant that stores nothing
Replace_Dropped(slot, new) == slot

\* m.replace(HaltAfterResetState { .. }): the slot afterwards
Replace(slot, new) == Some(new)

\* a variant that builds the control word without the key
EnableFp_NoKey == FpCtrl_set_enable(Zero32, TRUE)

\* let mut fp_ctrl = FpCtrl(0); fp_ctrl.set_enable(true); fp_ctrl.set_key(true);
EnableFp == FpCtrl_set_key(FpCtrl_set_enable(Zero32, TRUE), TRUE)

\* the comparator value for application_entry, chosen by fp_ctrl.rev() of
\* the fp_ctrl binding in scope at that point
BreakpointValue(fp_ctrl, application_entry) ==
    IF FpCtrl_rev(fp_ctrl) = 0
      THEN LET r == FpRev1CompX_breakpoint_configuration(application_entry)
           IN  IF r.ok THEN [result |-> "Ok", val |-> r.val]
                       ELSE [result |-> "UnsupportedAddress", val |-> Zero32]
    ELSE IF FpCtrl_rev(fp_ctrl) = 1
      THEN [result |-> "Ok", val |-> FpRev2CompX_breakpoint_configuration(application_entry)]
    ELSE [result |-> "UnsupportedRevision", val |-> Zero32]

Call_reset_catch_set(t) ==
    /\ Callable(t)
    /\ ctx' = [ctx EXCEPT ![t] =
                 [IdleCtx EXCEPT !.hook = "reset_catch_set",
                                 !.entry_state = halt_after_reset_state, !.pc = "cs_read_stcon",
                                 !.before = Some(HaltAfterResetState(
                                               FpCtrl_enable(mem.fpctrl), mem.fpcomp0))]]
    /\ armed' = None
    /\ UNCHANGED <<halt_after_reset_state, mem, active>>
    /\ UNCHANGED <<history, handed>>

\* let stcon = Stcon(core.read_word_32(Stcon::ADDRESS)?);
cs_read_stcon(t) ==
    /\ t \in active /\ ctx[t].pc = "cs_read_stcon"
    /\ \E ok \in BOOLEAN :
         LET c == ctx[t]
             e == Op("read", Stcon_ADDRESS, mem.stcon, ok)
         IN  ctx' = [ctx EXCEPT ![t] =
                 IF ok
                   THEN [Logged(c, e) EXCEPT
                           !.stcon = mem.stcon,
                           !.pc = IF NeedsNormalBoot(mem.stcon)
                                    THEN "cs_write_stcon" ELSE "cs_read_vector"]
                   ELSE Fail(c, e)]
    /\ UNCHANGED <<halt_after_reset_state, mem, active, armed>>

\* core.write_word_32(Stcon::ADDRESS, stcon.0)?;
cs_write_stcon(t) ==
    /\ t \in active /\ ctx[t].pc = "cs_write_stcon"
    /\ \E ok \in BOOLEAN :
         LET c == ctx[t]
             v == NormalBoot(c.stcon)
             e == Op("write", Stcon_ADDRESS, v, ok)
         IN  /\ ctx' = [ctx EXCEPT ![t] =
                   IF ok THEN Goto(Logged(c, e), "cs_read_vector") ELSE Fail(c, e)]
             /\ mem' = IF ok THEN HwWrite(mem, Stcon_ADDRESS, v) ELSE mem
    /\ UNCHANGED <<halt_after_reset_state, active, armed>>

\* let application_entry = core.read_word_32(0x0C000004)? + 1;
cs_read_vector(t) ==
    /\ t \in active /\ ctx[t].pc = "cs_read_vector"
    /\ \E ok \in BOOLEAN, v \in VectorValues :
         LET c == ctx[t]
             e == Op("read", VECTOR_ADDRESS, v, ok)
         IN  \E sum \in ApplicationEntry(v) :
               ctx' = [ctx EXCEPT ![t] =
                 IF ~ok THEN Fail(c, e)
                 ELSE IF sum.panic
                   THEN Return([Logged(c, e) EXCEPT !.vector = v], "Panic")
                   ELSE [Logged(c, e) EXCEPT !.vector = v,
                                             !.application_entry = sum.val,
                                             !.pc = "cs_read_fpctrl"]]
    /\ UNCHANGED <<halt_after_reset_state, mem, active, armed>>

\* let fp_ctrl = FpCtrl(core.read_word_32(FpCtrl::ADDRESS)?);
cs_read_fpctrl(t) ==
    /\ t \in active /\ ctx[t].pc = "cs_read_fpctrl"
    /\ \E ok \in BOOLEAN :
         LET c == ctx[t]
             e == Op("read", FpCtrl_ADDRESS, mem.fpctrl, ok)
         IN  ctx' = [ctx EXCEPT ![t] =
                 IF ok
                   THEN [Logged(c, e) EXCEPT !.fp_ctrl = mem.fpctrl,
                                             !.pc = "cs_read_fpcomp0"]
                   ELSE Fail(c, e)]
    /\ UNCHANGED <<halt_after_reset_state, mem, active, armed>>

\* let fpcomp0 = core.read_word_32(FpRev1CompX::ADDRESS)?;
cs_read_fpcomp0(t) ==
    /\ t \in active /\ ctx[t].pc = "cs_read_fpcomp0"
    /\ \E ok \in BOOLEAN :
         LET c == ctx[t]
             e == Op("read", FpRev1CompX_ADDRESS, mem.fpcomp0, ok)
         IN  ctx' = [ctx EXCEPT ![t] =
                 IF ok
                   THEN [Logged(c, e) EXCEPT !.fpcomp0 = mem.fpcomp0,
                                             !.pc = "cs_store"]
                   ELSE Fail(c, e)]
    /\ UNCHANGED <<halt_after_reset_state, mem, active, armed>>

\* HaltAfterResetState { fpctrl_enabled: fp_ctrl.enable(), fpcomp0: fpcomp0.into() }
Captured(c) == HaltAfterResetState(FpCtrl_enable(c.fp_ctrl), c.fpcomp0)

\* self.halt_after_reset_state.lock().map(|mut m| m.replace(..)).unwrap();
cs_store(t) ==
    /\ t \in active /\ ctx[t].pc = "cs_store"
    /\ LET c == ctx[t]
           new == Captured(c)
       IN  /\ halt_after_reset_state' = Replace(halt_after_reset_state, new)
           /\ ctx' = [ctx EXCEPT ![t] =
                 [c EXCEPT !.stored = TRUE, !.replaced = halt_after_reset_state,
                           !.pc = "cs_write_fpctrl"]]
    /\ UNCHANGED <<mem, active, armed>>

\* core.write_word_32(FpCtrl::ADDRESS, fp_ctrl.into())?;  (fp_ctrl rebound)
cs_write_fpctrl(t) ==
    /\ t \in active /\ ctx[t].pc = "cs_write_fpctrl"
    /\ \E ok \in BOOLEAN :
         LET c == [ctx[t] EXCEPT !.fp_ctrl = EnableFp]
             e == Op("write", FpCtrl_ADDRESS, EnableFp, ok)
         IN  /\ ctx' = [ctx EXCEPT ![t] =
                   IF ok THEN Goto(Logged(c, e), "cs_write_fpcomp0") ELSE Fail(c, e)]
             /\ mem' = IF ok THEN HwWrite(mem, FpCtrl_ADDRESS, EnableFp) ELSE mem
    /\ UNCHANGED <<halt_after_reset_state, active, armed>>

\* let val = ..breakpoint_configuration(application_entry)..;
\* core.write_word_32(FpRev1CompX::ADDRESS, val)?;
cs_write_fpcomp0(t) ==
    /\ t \in active /\ ctx[t].pc = "cs_write_fpcomp0"
    /\ \E ok \in BOOLEAN :
         LET c == ctx[t]
             b == BreakpointValue(c.fp_ctrl, c.application_entry)
             e == Op("write", FpRev1CompX_ADDRESS, b.val, ok)
         IN  /\ ctx' = [ctx EXCEPT ![t] =
                   IF b.result # "Ok" THEN Return(c, b.result)
                   ELSE IF ok THEN Goto(Logged(c, e), "cs_flush")
                   ELSE Fail(c, e)]
             /\ mem' = IF b.result = "Ok" /\ ok
                         THEN HwWrite(mem, FpRev1CompX_ADDRESS, b.val) ELSE mem
    /\ UNCHANGED <<halt_after_reset_state, active, armed>>

\* core.flush()?; Ok(())
cs_flush(t) ==
    /\ t \in active /\ ctx[t].pc = "cs_flush"
    /\ \E ok \in BOOLEAN :
         LET c == ctx[t]
             e == Op("flush", Zero32, Zero32, ok)
         IN  /\ ctx' = [ctx EXCEPT ![t] =
                   IF ok THEN Return(Logged(c, e), "Ok") ELSE Fail(c, e)]
             /\ armed' = IF ok THEN c.before ELSE armed
    /\ UNCHANGED <<halt_after_reset_state, mem, active>>

reset_catch_set(t) ==
    /\ \/ cs_read_stcon(t) \/ cs_write_stcon(t) \/ cs_read_vector(t)
       \/ cs_read_fpctrl(t) \/ cs_read_fpcomp0(t) \/ cs_store(t)
       \/ cs_write_fpctrl(t) \/ cs_write_fpcomp0(t) \/ cs_flush(t)
    /\ history' = Observed(history, ctx'[t])
    /\ handed' = IF ctx[t].pc = "cs_store" THEN 0 ELSE handed

---------------------------------------------------------------------------
(* reset_catch_clear                                                       *)

\* a variant of take() that leaves the record in the slot
Taken_Kept(slot) == slot

\* what m.take() leaves in the slot
Taken(slot) == None

\* m.take().unwrap_or_default()
TakeOrDefault(slot) == IF slot = None THEN HaltAfterResetState_default ELSE slot[1]

\* a variant that writes the key alone
RestoredFpCtrl_KeyOnly(original_state) == FpCtrl_set_key(Zero32, TRUE)

\* FpCtrl::from(0) with key set and enable as it was captured
RestoredFpCtrl(original_state) ==
    FpCtrl_set_enable(FpCtrl_set_key(Zero32, TRUE), original_state.fpctrl_enabled)

Call_reset_catch_clear(t) ==
    /\ Callable(t)
    /\ ctx' = [ctx EXCEPT ![t] =
                 [IdleCtx EXCEPT !.hook = "reset_catch_clear",
                                 !.entry_state = halt_after_reset_state, !.pc = "cc_take",
                                 !.roundtrip = armed]]
    /\ armed' = None
    /\ UNCHANGED <<halt_after_reset_state, mem, active>>
    /\ UNCHANGED <<history, handed>>

\* let original_state = self.halt_after_reset_state.lock().map(..take()..).unwrap();
cc_take(t) ==
    /\ t \in active /\ ctx[t].pc = "cc_take"
    /\ ctx' = [ctx EXCEPT ![t] =
                 [ctx[t] EXCEPT !.original_state = TakeOrDefault(halt_after_reset_state),
                                !.pc = "cc_write_fpctrl"]]
    /\ halt_after_reset_state' = Taken(halt_after_reset_state)
    /\ UNCHANGED <<mem, active, armed>>

\* core.write_word_32(FpCtrl::ADDRESS, fpctrl.into())?;
cc_write_fpctrl(t) ==
    /\ t \in active /\ ctx[t].pc = "cc_write_fpctrl"
    /\ \E ok \in BOOLEAN :
         LET c == ctx[t]
             v == RestoredFpCtrl(c.original_state)
             e == Op("write", FpCtrl_ADDRESS, v, ok)
         IN  /\ ctx' = [ctx EXCEPT ![t] =
                   IF ok THEN Goto(Logged(c, e), "cc_write_fpcomp0") ELSE Fail(c, e)]
             /\ mem' = IF ok THEN HwWrite(mem, FpCtrl_ADDRESS, v) ELSE mem
    /\ UNCHANGED <<halt_after_reset_state, active, armed>>

\* core.write_word_32(FpRev1CompX::ADDRESS, original_state.fpcomp0)?; Ok(())
cc_write_fpcomp0(t) ==
    /\ t \in active /\ ctx[t].pc = "cc_write_fpcomp0"
    /\ \E ok \in BOOLEAN :
         LET c == ctx[t]
             v == c.original_state.fpcomp0
             e == Op("write", FpRev1CompX_ADDRESS, v, ok)
         IN  /\ ctx' = [ctx EXCEPT ![t] =
                   IF ok THEN Return(Logged(c, e), "Ok") ELSE Fail(c, e)]
             /\ mem' = IF ok THEN HwWrite(mem, FpRev1CompX_ADDRESS, v) ELSE mem
    /\ UNCHANGED <<halt_after_reset_state, active, armed>>

reset_catch_clear(t) ==
    /\ cc_take(t) \/ cc_write_fpctrl(t) \/ cc_write_fpcomp0(t)
    /\ history' = Observed(history, ctx'[t])
    /\ handed' = IF ctx[t].pc # "cc_take" THEN handed
                 ELSE IF halt_after_reset_state' = None THEN 0
                 ELSE IF halt_after_reset_state = None THEN handed
                 ELSE Min(handed + 1, 2)

---------------------------------------------------------------------------
(* reset_system                                                            *)

\* a variant of the deadline test that never fires
PollTimedOut_Never(elapsed, timeout) == FALSE

\* start.elapsed() > Duration::from_millis(..)
PollTimedOut(elapsed, timeout) == elapsed > timeout

\* a variant that always waits for the halt
HaltWanted_Always(slot) == TRUE

\* self.halt_after_reset_state.lock().map(|v| v.is_some()).unwrap()
HaltWanted(slot) == slot # None

\* a variant of the presence test that consumes the record
Tested_Consumed(slot) == None

\* what the presence test v.is_some() leaves in the slot
Tested(slot) == slot

\* aircr.vectkey(); aircr.set_sysresetreq(true);
ResetRequest == Aircr_set_sysresetreq(Aircr_vectkey(Zero32), TRUE)

\* a variant that takes the debug access for enabled whatever was read
AccessEnabled_Always(id) == TRUE

\* if core.read_word_32(0x5000_4000)? != 0 { break }
AccessEnabled(id) == id # Zero32

\* one more turn of a polling loop whose condition was not met
PollAgain(c, e) == [Logged(c, e) EXCEPT !.polls = @ + 1]

Call_reset_system(t) ==
    /\ Callable(t)
    /\ ctx' = [ctx EXCEPT ![t] =
                 [IdleCtx EXCEPT !.hook = "reset_system",
                                 !.entry_state = halt_after_reset_state, !.pc = "rs_write_rstclr"]]
    /\ UNCHANGED <<halt_after_reset_state, mem, active, armed>>
    /\ UNCHANGED <<history, handed>>

\* core.write_word_32(0x5000_4408, 1)?;
rs_write_rstclr(t) ==
    /\ t \in active /\ ctx[t].pc = "rs_write_rstclr"
    /\ \E ok \in BOOLEAN :
         LET c == ctx[t]
             e == Op("write", RSTCLR_ADDRESS, W(0, 1), ok)
         IN  ctx' = [ctx EXCEPT ![t] =
                   IF ok THEN Goto(Logged(c, e), "rs_write_aircr") ELSE Fail(c, e)]
    /\ UNCHANGED <<halt_after_reset_state, mem, active, armed>>

\* core.write_word_32(Aircr::ADDRESS, aircr.into())?; let start = Instant::now();
rs_write_aircr(t) ==
    /\ t \in active /\ ctx[t].pc = "rs_write_aircr"
    /\ \E ok \in BOOLEAN :
         LET c == ctx[t]
             e == Op("write", Aircr_ADDRESS, ResetRequest, ok)
         IN  ctx' = [ctx EXCEPT ![t] =
                   IF ok THEN [Logged(c, e) EXCEPT !.pc = "rs_poll_reset", !.elapsed = 0]
                         ELSE Fail(c, e)]
    /\ UNCHANGED <<halt_after_reset_state, mem, active, armed>>

\* loop { dhcsr = read(DHCSR)?; if !s_reset_st { break } else if elapsed > 500ms { Timeout } }
\* let start = Instant::now();
rs_poll_reset(t) ==
    /\ t \in active /\ ctx[t].pc = "rs_poll_reset"
    /\ \E ok \in BOOLEAN, v \in DhcsrValues :
         LET c == ctx[t]
             e == Op("read", Dhcsr_ADDRESS, v, ok)
         IN  IF ~ok THEN ctx' = [ctx EXCEPT ![t] = Fail(c, e)]
             ELSE IF ~Dhcsr_s_reset_st(v)
               THEN ctx' = [ctx EXCEPT ![t] =
                      [Logged(c, e) EXCEPT !.pc = "rs_poll_dapsa", !.elapsed = 0, !.polls = 0]]
             ELSE IF PollTimedOut(c.elapsed, ResetTimeout)
               THEN ctx' = [ctx EXCEPT ![t] = Return(Logged(c, e), "Timeout")]
             ELSE /\ c.polls < MaxPolls
                  /\ ctx' = [ctx EXCEPT ![t] = PollAgain(c, e)]
    /\ UNCHANGED <<halt_after_reset_state, mem, active, armed>>

\* loop { id = read(0x5000_4000)?; if id != 0 { break } else if elapsed > 500ms { Timeout } }
rs_poll_dapsa(t) ==
    /\ t \in active /\ ctx[t].pc = "rs_poll_dapsa"
    /\ \E ok \in BOOLEAN, v \in ScuIdValues :
         LET c == ctx[t]
             e == Op("read", SCU_ID_ADDRESS, v, ok)
         IN  IF ~ok THEN ctx' = [ctx EXCEPT ![t] = Fail(c, e)]
             ELSE IF AccessEnabled(v)
               THEN ctx' = [ctx EXCEPT ![t] =
                      [Logged(c, e) EXCEPT !.pc = "rs_check_halt", !.polls = 0]]
             ELSE IF PollTimedOut(c.elapsed, DapsaTimeout)
               THEN ctx' = [ctx EXCEPT ![t] = Return(Logged(c, e), "Timeout")]
             ELSE /\ c.polls < MaxPolls
                  /\ ctx' = [ctx EXCEPT ![t] = PollAgain(c, e)]
    /\ UNCHANGED <<halt_after_reset_state, mem, active, armed>>

\* if self.halt_after_reset_state.lock().map(|v| v.is_some()).unwrap() {..} else {..} Ok(())
rs_check_halt(t) ==
    /\ t \in active /\ ctx[t].pc = "rs_check_halt"
    /\ LET c == ctx[t]
           wanted == HaltWanted(halt_after_reset_state)
       IN  ctx' = [ctx EXCEPT ![t] =
             IF wanted THEN [c EXCEPT !.halt_wanted = TRUE, !.pc = "rs_poll_halt"]
                       ELSE Return(c, "Ok")]
    /\ halt_after_reset_state' = Tested(halt_after_reset_state)
    /\ UNCHANGED <<mem, active, armed>>

\* loop { dhcsr = read(DHCSR)?; if s_halt { break } else if start.elapsed() > 1000ms { Timeout } }
\* (start is the one taken before the access-enable loop)
rs_poll_halt(t) ==
    /\ t \in active /\ ctx[t].pc = "rs_poll_halt"
    /\ \E ok \in BOOLEAN, v \in DhcsrValues :
         LET c == ctx[t]
             e == Op("read", Dhcsr_ADDRESS, v, ok)
         IN  IF ~ok THEN ctx' = [ctx EXCEPT ![t] = Fail(c, e)]
             ELSE IF Dhcsr_s_halt(v)
               THEN ctx' = [ctx EXCEPT ![t] = Return(Logged(c, e), "Ok")]
             ELSE IF PollTimedOut(c.elapsed, HaltTimeout)
               THEN ctx' = [ctx EXCEPT ![t] = Return(Logged(c, e), "Timeout")]
             ELSE /\ c.polls < MaxPolls
                  /\ ctx' = [ctx EXCEPT ![t] = PollAgain(c, e)]
    /\ UNCHANGED <<halt_after_reset_state, mem, active, armed>>

reset_system(t) ==
    /\ \/ rs_write_rstclr(t) \/ rs_write_aircr(t) \/ rs_poll_reset(t)
       \/ rs_poll_dapsa(t) \/ rs_check_halt(t) \/ rs_poll_halt(t)
    /\ history' = Observed(history, ctx'[t])
    /\ handed' = IF halt_after_reset_state' = None THEN 0 ELSE handed

---------------------------------------------------------------------------
(* reset_hardware_assert / reset_hardware_deassert                         *)

\* pin_select: nRST, TCK and TMS
PinSelect == Pins_set(Pins_set(Pins_set(0, 7, TRUE), 0, TRUE), 1, TRUE)

\* a variant that leaves the clock line high while the reset is asserted
AssertPinOutput_ClockHigh == Pins_set(Pins_set(Pins_set(0, 7, FALSE), 0, TRUE), 1, TRUE)

\* reset_hardware_assert's pin_output: nRST low, TCK low, TMS high
AssertPinOutput == Pins_set(Pins_set(Pins_set(0, 7, FALSE), 0, FALSE), 1, TRUE)

\* reset_hardware_deassert's pin_values: nRST high, TCK low, TMS high
DeassertPinValues == Pins_set(Pins_set(Pins_set(0, 7, TRUE), 0, FALSE), 1, TRUE)

\* a variant that takes every readback for pin state
CanReadPins_Always(readback) == TRUE

\* interface.swj_pins(..)? != 0xffff_ffff
CanReadPins(readback) == readback # AllOnes

\* Pins(readback as u8).nreset()
ReadbackResetHigh(readback) == Pins_nreset(AsU8(readback))

\* while start.elapsed() < Duration::from_secs(1)
InDeassertWindow(elapsed) == elapsed < DeassertWindow

\* what follows the polling loop, however it was left: the error return
AfterDeassertPoll(saw_high) == "Timeout"

Call_reset_hardware_assert(t) ==
    /\ Callable(t)
    /\ ctx' = [ctx EXCEPT ![t] =
                 [IdleCtx EXCEPT !.hook = "reset_hardware_assert",
                                 !.entry_state = halt_after_reset_state, !.pc = "ha_pins"]]
    /\ UNCHANGED <<halt_after_reset_state, mem, active, armed>>
    /\ UNCHANGED <<history, handed>>

\* let _ = interface.swj_pins(pin_output, pin_select, 0)?; Ok(())
ha_pins(t) ==
    /\ t \in active /\ ctx[t].pc = "ha_pins"
    /\ \E ok \in BOOLEAN, rb \in PinReadbacks :
         LET c == ctx[t]
             e == PinOp(AssertPinOutput, PinSelect, rb, ok)
         IN  ctx' = [ctx EXCEPT ![t] =
                   IF ok THEN Return(Logged(c, e), "Ok") ELSE Fail(c, e)]
    /\ UNCHANGED <<halt_after_reset_state, mem, active, armed>>

reset_hardware_assert(t) ==
    /\ ha_pins(t)
    /\ history' = Observed(history, ctx'[t])
    /\ UNCHANGED handed

Call_reset_hardware_deassert(t) ==
    /\ Callable(t)
    /\ ctx' = [ctx EXCEPT ![t] =
                 [IdleCtx EXCEPT !.hook = "reset_hardware_deassert",
                                 !.entry_state = halt_after_reset_state, !.pc = "hd_release"]]
    /\ UNCHANGED <<halt_after_reset_state, mem, active, armed>>
    /\ UNCHANGED <<history, handed>>

\* let can_read_pins = interface.swj_pins(pin_values, pin_select, 0)? != 0xffff_ffff;
\* if can_read_pins { let start = Instant::now(); .. }
hd_release(t) ==
    /\ t \in active /\ ctx[t].pc = "hd_release"
    /\ \E ok \in BOOLEAN, rb \in PinReadbacks :
         LET c == ctx[t]
             e == PinOp(DeassertPinValues, PinSelect, rb, ok)
         IN  ctx' = [ctx EXCEPT ![t] =
                   IF ~ok THEN Fail(c, e)
                   ELSE IF CanReadPins(rb)
                     THEN [Logged(c, e) EXCEPT !.can_read_pins = TRUE,
                                               !.elapsed = 0, !.pc = "hd_poll"]
                     ELSE [Logged(c, e) EXCEPT !.can_read_pins = FALSE,
                                               !.pc = "hd_settle"]]
    /\ UNCHANGED <<halt_after_reset_state, mem, active, armed>>

\* while start.elapsed() < 1 s { if Pins(swj_pins(..)? as u8).nreset() { break; }
\*                               thread::sleep(100 ms); }
\* return Err(DebugProbeError::Timeout.into());
hd_poll(t) ==
    /\ t \in active /\ ctx[t].pc = "hd_poll"
    /\ \E ok \in BOOLEAN, rb \in PinReadbacks :
         LET c == ctx[t]
             e == PinOp(DeassertPinValues, PinSelect, rb, ok)
         IN  ctx' = [ctx EXCEPT ![t] =
                   IF ~InDeassertWindow(c.elapsed) THEN Return(c, AfterDeassertPoll(FALSE))
                   ELSE IF ~ok THEN Fail(c, e)
                   ELSE IF ReadbackResetHigh(rb)
                     THEN Return(Logged(c, e), AfterDeassertPoll(TRUE))
                   ELSE [Logged(c, e) EXCEPT
                           !.elapsed = Min(@ + PollSleep, SatElapsed),
                           !.slept = @ + PollSleep]]
    /\ UNCHANGED <<halt_after_reset_state, mem, active, armed>>

\* thread::sleep(Duration::from_millis(100)); Ok(())
hd_settle(t) ==
    /\ t \in active /\ ctx[t].pc = "hd_settle"
    /\ ctx' = [ctx EXCEPT ![t] =
                 Return([ctx[t] EXCEPT !.slept = @ + SettleDelay], "Ok")]
    /\ UNCHANGED <<halt_after_reset_state, mem, active, armed>>

reset_hardware_deassert(t) ==
    /\ hd_release(t) \/ hd_poll(t) \/ hd_settle(t)
    /\ history' = Observed(history, ctx'[t])
    /\ UNCHANGED handed

---------------------------------------------------------------------------
(* Time and the orchestrator                                               *)

\* the places where the code compares Instant::now() with a start
Timed(pc) == pc \in {"rs_poll_reset", "rs_poll_dapsa", "rs_check_halt",
                     "rs_poll_halt", "hd_poll"}

\* 100 ms pass
Tick ==
    /\ \E t \in active : Timed(ctx[t].pc) /\ ctx[t].elapsed < SatElapsed
    /\ ctx' = [t \in Contexts |->
                 IF t \in active /\ Timed(ctx[t].pc)
                   THEN [ctx[t] EXCEPT !.elapsed = Min(@ + 1, SatElapsed)]
                   ELSE ctx[t]]
    /\ UNCHANGED <<halt_after_reset_state, mem, active, armed, history, handed>>

\* the orchestrator enters one of the five hooks
Call(t) ==
    \/ Call_reset_hardware_assert(t)
    \/ Call_reset_hardware_deassert(t)
    \/ Call_reset_catch_set(t)
    \/ Call_reset_system(t)
    \/ Call_reset_catch_clear(t)

Next ==
    \/ \E t \in Contexts : Call(t) /\ UNCHANGED halt_watch
    \/ \E t \in Contexts : reset_hardware_assert(t) /\ UNCHANGED halt_watch
    \/ \E t \in Contexts : reset_hardware_deassert(t) /\ UNCHANGED halt_watch
    \/ \E t \in Contexts : reset_catch_set(t) /\ UNCHANGED halt_watch
    \/ \E t \in Contexts : reset_system(t) /\ UNCHANGED halt_watch
    \/ \E t \in Contexts : reset_catch_clear(t) /\ UNCHANGED halt_watch
    \/ Tick /\ UNCHANGED halt_watch

Spec == Init /\ [][Next]_vars

\* The condition a polling loop of reset_system waits for, as the read e shows it
PollSatisfied(pc, e) ==
    IF pc = "rs_poll_reset" THEN ~Dhcsr_s_reset_st(e.val)
    ELSE IF pc = "rs_poll_dapsa" THEN AccessEnabled(e.val)
    ELSE Dhcsr_s_halt(e.val)

\* the last operation of frame c was a read by the loop at pc that returned
\* and did not show the loop's condition
Unsatisfied(pc, c) ==
    /\ Len(c.log) > 0
    /\ c.log[Len(c.log)].ok
    /\ ~PollSatisfied(pc, c.log[Len(c.log)])

\* A step of reset_system that owes nothing to the target: any step outside
\* the polling loops, and in a loop a read that returns without the awaited
\* condition (the loop goes round or gives up).
Undelayed(t) ==
    /\ reset_system(t)
    /\ UNCHANGED halt_watch
    /\ ctx[t].pc \in {"rs_poll_reset", "rs_poll_dapsa", "rs_poll_halt"}
         => Unsatisfied(ctx[t].pc, ctx'[t])

\* The calls that matter to reset_system: reset_catch_set, which fills the
\* slot (called here on an empty slot only, as in the orchestrator's reset
\* cycle), and reset_system itself.
ResetNext ==
    \/ \E t \in Contexts : /\ halt_after_reset_state = None
                            /\ Call_reset_catch_set(t)
                            /\ UNCHANGED halt_watch
    \/ \E t \in Contexts : reset_catch_set(t) /\ UNCHANGED halt_watch
    \/ \E t \in Contexts : Call_reset_system(t) /\ UNCHANGED halt_watch
    \/ \E t \in Contexts : reset_system(t) /\ UNCHANGED halt_watch
    \/ Tick /\ UNCHANGED halt_watch

\* The clock keeps advancing and every operation returns.
FairSpec ==
    /\ Init
    /\ [][ResetNext]_vars
    /\ WF_vars(Tick /\ UNCHANGED halt_watch)
    /\ \A t \in Contexts : WF_vars(Undelayed(t))

\* Three contexts call hooks of the one provider (of one target: the
\* interleavings do not depend on the revision of its breakpoint unit).
ConcInit ==
    /\ halt_after_reset_state = None
    /\ mem \in [stcon : StconValues, fpctrl : {W(0, \h0261)}, fpcomp0 : FpComp0Values]
    /\ ctx = [t \in Contexts |-> IdleCtx]
    /\ active = {1, 2, 3}
    /\ armed = None
    /\ history = "fresh"
    /\ handed = 0
    /\ halt_watch = [t \in Contexts |-> NoWatch]

\* the step of context t did not end its hook with an error
Unfailed(t) == ctx'[t].result \in {"none", "Ok"}

\* The hooks that write the slot, one call from each context, interleaved
\* operation by operation, over a transport that works.  The contexts being
\* alike, the first one captures, the last one restores and the middle one
\* does either.
ConcNext ==
    \/ \E t \in {1, 2} : /\ ctx[t].pc = "idle"
                          /\ Call_reset_catch_set(t)
                          /\ UNCHANGED halt_watch
    \/ \E t \in {2, 3} : /\ ctx[t].pc = "idle"
                          /\ Call_reset_catch_clear(t)
                          /\ UNCHANGED halt_watch
    \/ \E t \in Contexts : reset_catch_set(t) /\ Unfailed(t) /\ UNCHANGED halt_watch
    \/ \E t \in Contexts : reset_catch_clear(t) /\ Unfailed(t) /\ UNCHANGED halt_watch

ConcSpec == ConcInit /\ [][ConcNext]_vars

\* The stopwatch of context t after a step from frame c to frame d: started
\* when the halt loop is entered, read when the loop returns Timeout, cleared
\* by the next call.
HaltWatch(w, c, d) ==
    IF c.pc = "rs_check_halt" /\ d.pc = "rs_poll_halt"
      THEN [start |-> c.elapsed, waited |-> 0]
    ELSE IF c.pc = "rs_poll_halt" /\ d.pc = "done"
      THEN [start |-> 0,
            waited |-> IF d.result = "Timeout" THEN c.elapsed - w.start ELSE 0]
    ELSE IF c.pc \in {"idle", "done"} /\ d.pc # c.pc
      THEN NoWatch
    ELSE w

Watched == halt_watch' = [t \in Contexts |-> HaltWatch(halt_watch[t], ctx[t], ctx'[t])]

\* Next with the stopwatch running
WatchNext ==
    \/ \E t \in Contexts : Call(t) /\ Watched
    \/ \E t \in Contexts : reset_hardware_assert(t) /\ Watched
    \/ \E t \in Contexts : reset_hardware_deassert(t) /\ Watched
    \/ \E t \in Contexts : reset_catch_set(t) /\ Watched
    \/ \E t \in Contexts : reset_system(t) /\ Watched
    \/ \E t \in Contexts : reset_catch_clear(t) /\ Watched
    \/ Tick /\ Watched

WatchSpec == Init /\ [][WatchNext]_vars

---------------------------------------------------------------------------
(* Reading a hook's operation log                                          *)

\* positions of the operations of one kind on one address
OpsAt(c, kind, addr) ==
    {i \in 1..Len(c.log) : c.log[i].op = kind /\ c.log[i].addr = addr}

\* positions of the reads of addr that returned a value
ReadsOk(c, addr) == {i \in OpsAt(c, "read", addr) : c.log[i].ok}

InHook(c, name) == c.hook = name

Returned(c, name, r) == c.hook = name /\ c.pc = "done" /\ c.result = r

UserBreakpoint == W(\h4800, \h1235)

---------------------------------------------------------------------------
(* C1                                                                      *)

\* C1: round trip.  When reset_catch_clear returns Ok and the last hook that
\* wrote the breakpoint registers before it was a reset_catch_set that
\* returned Ok, the breakpoint-unit enable flag and comparator slot 0 hold
\* the values they had when that reset_catch_set was called.
C1_RoundTrip ==
    \A t \in Contexts :
      LET c == ctx[t]
      IN  (Returned(c, "reset_catch_clear", "Ok") /\ c.roundtrip # None)
            => /\ FpCtrl_enable(mem.fpctrl) = c.roundtrip[1].fpctrl_enabled
               /\ mem.fpcomp0 = c.roundtrip[1].fpcomp0

\* a round trip that put a user's breakpoint back in place of the catch breakpoint
C1_Witness ==
    \E t \in Contexts :
      LET c == ctx[t]
      IN  /\ Returned(c, "reset_catch_clear", "Ok")
          /\ c.roundtrip = Some(HaltAfterResetState(TRUE, UserBreakpoint))
          /\ mem.fpcomp0 = UserBreakpoint

---------------------------------------------------------------------------
(* C2                                                                      *)

\* C2: with pin readback supported, reset_hardware_deassert returns Ok once a
\* readback of the poll shows the reset line high, and returns Timeout only
\* when no readback of the poll showed it high.
C2_DeassertSucceedsWhenResetHigh ==
    \A t \in Contexts :
      LET c == ctx[t]
          high == {i \in 2..Len(c.log) : c.log[i].ok /\ ReadbackResetHigh(c.log[i].val)}
      IN  (InHook(c, "reset_hardware_deassert") /\ c.pc = "done" /\ c.can_read_pins)
            => /\ high # {} => c.result = "Ok"
               /\ c.result = "Timeout" => high = {}

---------------------------------------------------------------------------
(* C3                                                                      *)

\* C3: the comparator value reset_catch_set writes is the rev-1-style
\* encoding of the application entry when the breakpoint unit reports
\* revision 0 and the rev-2-style encoding when it reports revision 1.
C3_EncodingFollowsHardwareRevision ==
    \A t \in Contexts :
      LET c == ctx[t]
      IN  InHook(c, "reset_catch_set") =>
            \A i \in OpsAt(c, "write", FpRev1CompX_ADDRESS) :
              /\ FpCtrl_rev(mem.fpctrl) = 0 =>
                   c.log[i].val = FpRev1CompX_breakpoint_configuration(c.application_entry).val
              /\ FpCtrl_rev(mem.fpctrl) = 1 =>
                   c.log[i].val = FpRev2CompX_breakpoint_configuration(c.application_entry)

---------------------------------------------------------------------------
(* C4                                                                      *)

\* C4: when the breakpoint unit reports a revision other than 0 or 1,
\* reset_catch_set issues no write to comparator slot 0 and does not return Ok.
C4_UnsupportedRevisionRefused ==
    \A t \in Contexts :
      LET c == ctx[t]
      IN  (InHook(c, "reset_catch_set") /\ FpCtrl_rev(mem.fpctrl) \notin {0, 1})
            => /\ OpsAt(c, "write", FpRev1CompX_ADDRESS) = {}
               /\ ~Returned(c, "reset_catch_set", "Ok")

---------------------------------------------------------------------------
(* C5                                                                      *)

\* C5: halt gating.  reset_system reads the halt status (a DHCSR read after
\* the access-enable poll has succeeded) only when RetainedState is present;
\* when it is absent the call returns Ok right after the successful
\* access-enable read, which is then the last operation it performed.
C5_HaltGating ==
    \A t \in Contexts :
      LET c == ctx[t]
          access == {i \in ReadsOk(c, SCU_ID_ADDRESS) : c.log[i].val # Zero32}
          haltReads == {j \in OpsAt(c, "read", Dhcsr_ADDRESS) : \E i \in access : i < j}
      IN  InHook(c, "reset_system") =>
            /\ haltReads # {} => halt_after_reset_state # None
            /\ c.pc = "rs_poll_halt" => halt_after_reset_state # None
            /\ (halt_after_reset_state = None /\ access # {})
                 => /\ c.pc \in {"rs_check_halt", "done"}
                    /\ c.pc = "done" => (c.result = "Ok" /\ Len(c.log) \in access)

\* reset_system returned Ok without RetainedState, the access read last
C5_Witness ==
    \E t \in Contexts :
      LET c == ctx[t]
      IN  /\ Returned(c, "reset_system", "Ok")
          /\ halt_after_reset_state = None
          /\ c.log[Len(c.log)].addr = SCU_ID_ADDRESS
          /\ OpsAt(c, "read", SCU_ID_ADDRESS) # {Len(c.log)}

---------------------------------------------------------------------------
(* C6                                                                      *)

\* C6: overwrite, not merge.  Once reset_catch_set has stored, and until the
\* call returns, the slot holds exactly the enable flag and comparator value
\* this call read, whatever the slot held before; and the record
\* reset_catch_clear takes after a reset_catch_set that returned Ok is the
\* one that call captured.
C6_OverwriteNotMerge ==
    \A t \in Contexts :
      LET c == ctx[t]
      IN  /\ (InHook(c, "reset_catch_set") /\ c.stored) =>
                LET fp == c.log[CHOOSE i \in ReadsOk(c, FpCtrl_ADDRESS) : TRUE].val
                    cmp == c.log[CHOOSE i \in ReadsOk(c, FpRev1CompX_ADDRESS) : TRUE].val
                IN  halt_after_reset_state = Some(HaltAfterResetState(fp.lo % 2 = 1, cmp))
          /\ (InHook(c, "reset_catch_clear") /\ c.pc # "cc_take" /\ c.roundtrip # None)
                => c.original_state = c.roundtrip[1]

\* a second reset_catch_set stored over a different record that was present
C6_Witness ==
    \E t \in Contexts :
      LET c == ctx[t]
      IN  /\ Returned(c, "reset_catch_set", "Ok")
          /\ c.stored
          /\ c.replaced # None
          /\ c.replaced # halt_after_reset_state

---------------------------------------------------------------------------
(* C7                                                                      *)

\* C7: boot-mode normalization.  After reading the boot-configuration
\* register, reset_catch_set writes it exactly when the software boot-mode
\* field (bits 11..8) of the word read is nonzero, at most once, and the word
\* written is the word read with those four bits zero and every other bit,
\* the power-on-latched field (bits 1..0) included, as read.
C7_BootModeNormalization ==
    \A t \in Contexts :
      LET c == ctx[t]
          writes == OpsAt(c, "write", Stcon_ADDRESS)
      IN  (InHook(c, "reset_catch_set") /\ ReadsOk(c, Stcon_ADDRESS) # {}
             /\ c.pc \notin {"cs_read_stcon", "cs_write_stcon"})
            => LET r == c.log[1].val
                   field == (r.lo \div 256) % 16
               IN  /\ (writes # {}) <=> (field # 0)
                   /\ Cardinality(writes) <= 1
                   /\ \A i \in writes :
                        /\ c.log[i].val.hi = r.hi
                        /\ c.log[i].val.lo = r.lo - field * 256
                        /\ c.log[i].val.lo % 4 = r.lo % 4

\* a call that rewrote the register, and went on
C7_Witness ==
    \E t \in Contexts :
      LET c == ctx[t]
      IN  /\ Returned(c, "reset_catch_set", "Ok")
          /\ \E i \in OpsAt(c, "write", Stcon_ADDRESS) :
               c.log[i].ok /\ c.log[i].val = W(\hA5A5, \h505A)

---------------------------------------------------------------------------
(* C8                                                                      *)

\* C8: address computation.  For an even vector-slot word V read by
\* reset_catch_set, the application entry is V + 1, and the value written to
\* comparator slot 0 is the comparator encoding of V + 1.
C8_AddressComputation ==
    \A t \in Contexts :
      LET c == ctx[t]
      IN  InHook(c, "reset_catch_set") =>
            \A k \in ReadsOk(c, VECTOR_ADDRESS) :
              LET V == c.log[k].val
                  target == W(V.hi, V.lo + 1)
              IN  V.lo % 2 = 0 =>
                    /\ c.result # "Panic"
                    /\ c.application_entry = target
                    /\ \A i \in OpsAt(c, "write", FpRev1CompX_ADDRESS) :
                         /\ FpRev1CompX_breakpoint_configuration(target).ok
                         /\ c.log[i].val = FpRev1CompX_breakpoint_configuration(target).val

\* the comparator was written for the even vector word 0x0C00_0100
C8_Witness ==
    \E t \in Contexts :
      LET c == ctx[t]
      IN  /\ Returned(c, "reset_catch_set", "Ok")
          /\ c.vector = W(\h0C00, \h0100)
          /\ \E i \in OpsAt(c, "write", FpRev1CompX_ADDRESS) :
               c.log[i].ok /\ c.log[i].val = W(\h8C00, \h0101)

---------------------------------------------------------------------------
(* C9                                                                      *)

\* C9: pin-readback fallback.  When the swj_pins call that releases the reset
\* line returns 0xFFFF_FFFF, reset_hardware_deassert makes no other swj_pins
\* call, sleeps the settle delay once and returns Ok.
C9_PinReadbackFallback ==
    \A t \in Contexts :
      LET c == ctx[t]
      IN  (InHook(c, "reset_hardware_deassert") /\ Len(c.log) >= 1
             /\ c.log[1].ok /\ c.log[1].val = AllOnes)
            => /\ Len(c.log) = 1
               /\ c.pc \in {"hd_settle", "done"}
               /\ c.pc = "hd_settle" => c.slept = 0
               /\ c.pc = "done" => (c.result = "Ok" /\ c.slept = SettleDelay)

\* the fallback ran to its end
C9_Witness ==
    \E t \in Contexts :
      LET c == ctx[t]
      IN  /\ Returned(c, "reset_hardware_deassert", "Ok")
          /\ c.log = <<PinOp(DeassertPinValues, PinSelect, AllOnes, TRUE)>>
          /\ c.slept = SettleDelay

---------------------------------------------------------------------------
(* C10                                                                     *)

\* C10: transport errors are never retried.  In every hook a failed read,
\* write, flush or pin operation is the last operation of the call, the call
\* has returned, and its result is that transport error; and a call returns
\* the transport error only when its last operation failed.
C10_TransportErrorsNotRetried ==
    \A t \in Contexts :
      LET c == ctx[t]
      IN  /\ \A i \in 1..Len(c.log) :
               ~c.log[i].ok => (i = Len(c.log) /\ c.pc = "done" /\ c.result = "Transport")
          /\ c.result = "Transport" => (Len(c.log) >= 1 /\ ~c.log[Len(c.log)].ok)

\* a poll of reset_system failed after earlier operations had succeeded
C10_Witness ==
    \E t \in Contexts :
      LET c == ctx[t]
      IN  /\ Returned(c, "reset_system", "Transport")
          /\ Len(c.log) >= 4
          /\ ~c.log[Len(c.log)].ok
          /\ c.log[Len(c.log)].addr = Dhcsr_ADDRESS

---------------------------------------------------------------------------
(* C11                                                                     *)

\* C11: pin drive pattern.  Every swj_pins call of reset_hardware_assert and
\* reset_hardware_deassert selects the reset, clock and data lines and no
\* other line, and drives clock low and data high; reset_hardware_assert
\* drives the reset line low and makes one call only; every call of
\* reset_hardware_deassert drives the reset line high.
C11_PinDrivePattern ==
    \A t \in Contexts :
      LET c == ctx[t]
          pins == {i \in 1..Len(c.log) : c.log[i].op = "pins"}
      IN  c.hook \in {"reset_hardware_assert", "reset_hardware_deassert"} =>
            /\ pins = 1..Len(c.log)
            /\ \A i \in pins :
                 /\ c.log[i].sel = 128 + 2 + 1
                 /\ ~Pins_swclk_tck(c.log[i].out)
                 /\ Pins_swdio_tms(c.log[i].out)
                 /\ c.log[i].out \in {2, 128 + 2}
                 /\ Pins_nreset(c.log[i].out) <=> (c.hook = "reset_hardware_deassert")
            /\ c.hook = "reset_hardware_assert" =>
                 /\ Len(c.log) <= 1
                 /\ c.pc = "done" => Len(c.log) = 1

\* a deassert call that released the reset line and polled it twice
C11_Witness ==
    \E t \in Contexts :
      LET c == ctx[t]
      IN  /\ Returned(c, "reset_hardware_deassert", "Timeout")
          /\ Len(c.log) >= 3
          /\ c.log[3].out = 130 /\ c.log[3].sel = 131

---------------------------------------------------------------------------
(* C12                                                                     *)

\* C12: RetainedState lifecycle.  Between hook calls, as long as every call
\* made since construction returned Ok, the slot holds a record exactly when
\* the last of reset_catch_set / reset_catch_clear to return was
\* reset_catch_set (and is empty on a fresh provider); and the slot never
\* changes while reset_system, reset_hardware_assert or
\* reset_hardware_deassert runs: it is what it was when the hook was entered.
C12_RetainedStateLifecycle ==
    /\ (\A t \in active : ctx[t].pc \in {"idle", "done"}) =>
         /\ history = "reset_catch_set" => halt_after_reset_state # None
         /\ history \in {"fresh", "reset_catch_clear"} => halt_after_reset_state = None
    /\ \A t \in active :
         ctx[t].hook \in {"reset_system", "reset_hardware_assert",
                          "reset_hardware_deassert"}
           => halt_after_reset_state = ctx[t].entry_state

\* a reset_system that waited for the halt has returned Ok after a
\* reset_catch_set, every call so far having succeeded: the record is still
\* in the slot
C12_Witness ==
    \E t \in active :
      /\ history = "reset_catch_set"
      /\ Returned(ctx[t], "reset_system", "Ok")
      /\ ctx[t].halt_wanted
      /\ halt_after_reset_state # None

---------------------------------------------------------------------------
(* C13                                                                     *)

\* C13: reset_system step order.  The operations of a reset_system call are,
\* in this order: the write of 1 to the reset-cause clear register, the write
\* of the reset request to AIRCR, DHCSR reads until one shows the reset bit
\* clear, reads of 0x5000_4000 until one is nonzero, and then, only if the
\* slot held a record, DHCSR reads until one shows the core halted.  A phase
\* starts only after the read that ended the phase before it, no operation
\* follows a failed one, and the call returns Ok only after every condition
\* that applies was read.
C13_ResetSystemStepOrder ==
    \A t \in Contexts :
      LET c == ctx[t]
          n == Len(c.log)
          IsRead(i, a) == c.log[i].op = "read" /\ c.log[i].addr = a
          AfterAccess(i) == \E j \in 1..(i - 1) : IsRead(j, SCU_ID_ADDRESS)
      IN  InHook(c, "reset_system") =>
            /\ n >= 1 => c.log[1] = Op("write", RSTCLR_ADDRESS, W(0, 1), c.log[1].ok)
            /\ n >= 2 => c.log[2] = Op("write", Aircr_ADDRESS, W(\h05FA, 4), c.log[2].ok)
            /\ n >= 3 => IsRead(3, Dhcsr_ADDRESS)
            /\ \A i \in 1..(n - 1) : c.log[i].ok
            /\ \A i \in 3..(n - 1) :
                 IF IsRead(i, SCU_ID_ADDRESS)
                   THEN IF c.log[i].val = Zero32
                          THEN IsRead(i + 1, SCU_ID_ADDRESS)
                          ELSE IsRead(i + 1, Dhcsr_ADDRESS) /\ c.entry_state # None
                 ELSE IF AfterAccess(i)
                   THEN /\ IsRead(i, Dhcsr_ADDRESS)
                        /\ ~Dhcsr_s_halt(c.log[i].val)
                        /\ IsRead(i + 1, Dhcsr_ADDRESS)
                 ELSE /\ IsRead(i, Dhcsr_ADDRESS)
                      /\ IF Dhcsr_s_reset_st(c.log[i].val)
                           THEN IsRead(i + 1, Dhcsr_ADDRESS)
                           ELSE IsRead(i + 1, SCU_ID_ADDRESS)
            /\ Returned(c, "reset_system", "Ok") =>
                 /\ n >= 4 /\ c.log[n].ok
                 /\ \E i \in 3..n : /\ IsRead(i, Dhcsr_ADDRESS) /\ ~AfterAccess(i)
                                    /\ ~Dhcsr_s_reset_st(c.log[i].val)
                 /\ \E i \in 4..n : IsRead(i, SCU_ID_ADDRESS) /\ c.log[i].val # Zero32
                 /\ IF c.entry_state = None
                      THEN IsRead(n, SCU_ID_ADDRESS)
                      ELSE /\ IsRead(n, Dhcsr_ADDRESS) /\ AfterAccess(n)
                           /\ Dhcsr_s_halt(c.log[n].val)

\* a call that went round each of the three loops once more before its
\* condition was read, and returned Ok
C13_Witness ==
    \E t \in Contexts :
      /\ Returned(ctx[t], "reset_system", "Ok")
      /\ ctx[t].entry_state # None
      /\ Len(ctx[t].log) = 8

---------------------------------------------------------------------------
(* C14                                                                     *)

\* C14: halt-wait window.  The halt loop of reset_system gives up only once
\* more than 1000 ms have passed since the halt loop began, however long the
\* access-enable loop before it took: a call that returns Timeout from the
\* halt loop has spent more than HaltTimeout in that loop.
C14_HaltWindowFromHaltPoll ==
    \A t \in Contexts :
      (Returned(ctx[t], "reset_system", "Timeout") /\ ctx[t].halt_wanted)
        => halt_watch[t].waited > HaltTimeout

---------------------------------------------------------------------------
(* C15                                                                     *)

\* C15: reset_catch_set order.  In a reset_catch_set call the breakpoint
\* control register and comparator 0 are both read, and the record is stored,
\* before the first write to either register; the control register is written
\* with the enable and key bits set and every other bit zero, and that write
\* comes before the write of comparator 0; the flush is the last operation,
\* and a call that returns Ok has made both writes and the flush.
C15_CatchSetOrder ==
    \A t \in Contexts :
      LET c == ctx[t]
          n == Len(c.log)
          reads == OpsAt(c, "read", FpCtrl_ADDRESS) \cup OpsAt(c, "read", FpRev1CompX_ADDRESS)
          wctrl == OpsAt(c, "write", FpCtrl_ADDRESS)
          wcomp == OpsAt(c, "write", FpRev1CompX_ADDRESS)
          flushes == {i \in 1..n : c.log[i].op = "flush"}
      IN  InHook(c, "reset_catch_set") =>
            /\ c.stored => /\ ReadsOk(c, FpCtrl_ADDRESS) # {}
                           /\ ReadsOk(c, FpRev1CompX_ADDRESS) # {}
            /\ wctrl \cup wcomp # {} =>
                 /\ c.stored
                 /\ \A w \in wctrl \cup wcomp : \A r \in reads : r < w
            /\ \A w \in wctrl : c.log[w].val = W(0, 3)
            /\ \A x \in wcomp : \E w \in wctrl : w < x /\ c.log[w].ok
            /\ \A f \in flushes : f = n /\ \E x \in wcomp : x < f /\ c.log[x].ok
            /\ Returned(c, "reset_catch_set", "Ok") =>
                 /\ Cardinality(wctrl) = 1 /\ Cardinality(wcomp) = 1
                 /\ flushes = {n}

\* a call that returned Ok
C15_Witness ==
    \E t \in Contexts :
      /\ Returned(ctx[t], "reset_catch_set", "Ok")
      /\ ctx[t].stored
      /\ OpsAt(ctx[t], "write", FpRev1CompX_ADDRESS) # {}

---------------------------------------------------------------------------
(* C16                                                                     *)

\* C16: termination of reset_system.  With the clock advancing and every
\* operation returning, every reset_system call returns; and a call that
\* returned after a read of one of its three loops came back without the
\* condition that loop waits for has returned Timeout.
C16_ResetSystemTerminates ==
    /\ \A t \in Contexts :
         (InHook(ctx[t], "reset_system") /\ ctx[t].pc # "done") ~> (ctx[t].pc = "done")
    /\ [](\A t \in Contexts :
            LET c == ctx[t]
                n == Len(c.log)
                loop == IF c.log[n].addr = SCU_ID_ADDRESS THEN "rs_poll_dapsa"
                        ELSE IF OpsAt(c, "read", SCU_ID_ADDRESS) # {} THEN "rs_poll_halt"
                        ELSE "rs_poll_reset"
            IN  (/\ InHook(c, "reset_system") /\ c.pc = "done"
                 /\ n >= 3 /\ Unsatisfied(loop, c))
                  => c.result = "Timeout")


\* a call whose halt loop never saw the core halted has returned Timeout
C16_Witness ==
    \E t \in Contexts :
      /\ Returned(ctx[t], "reset_system", "Timeout")
      /\ ctx[t].halt_wanted
      /\ \A i \in 1..Len(ctx[t].log) :
           ctx[t].log[i].addr = Dhcsr_ADDRESS => ~Dhcsr_s_halt(ctx[t].log[i].val)

---------------------------------------------------------------------------
(* C17                                                                     *)

\* the record a reset_catch_set call built from its own two reads
RecordReadBy(c) ==
    LET i == CHOOSE i \in ReadsOk(c, FpCtrl_ADDRESS) : TRUE
        j == CHOOSE j \in ReadsOk(c, FpRev1CompX_ADDRESS) : TRUE
    IN  HaltAfterResetState(FpCtrl_enable(c.log[i].val), c.log[j].val)

\* r is the record some one reset_catch_set call read and stored
StoredByOneCall(r) ==
    \E u \in Contexts : /\ InHook(ctx[u], "reset_catch_set")
                        /\ ctx[u].stored
                        /\ r = RecordReadBy(ctx[u])

\* C17: no torn state under interleaving.  With the hooks of one provider
\* called from several contexts at once, the slot is empty or holds a record
\* whose enable flag and comparator value were both read and stored by one
\* reset_catch_set call; what a reset_catch_clear call took is the default
\* (empty slot) or such a record; and the record in the slot has been handed
\* to no more than one reset_catch_clear call.
C17_NoTornState ==
    /\ halt_after_reset_state # None => StoredByOneCall(halt_after_reset_state[1])
    /\ \A t \in Contexts :
         (InHook(ctx[t], "reset_catch_clear") /\ ctx[t].pc # "cc_take")
           => \/ ctx[t].original_state = HaltAfterResetState_default
              \/ StoredByOneCall(ctx[t].original_state)
    /\ handed <= 1
    /\ Cardinality({t \in Contexts : /\ InHook(ctx[t], "reset_catch_clear")
                                     /\ ctx[t].pc # "cc_take"
                                     /\ ctx[t].original_state # HaltAfterResetState_default})
         <= Cardinality({u \in Contexts : ctx[u].stored})

\* a reset_catch_clear called on an empty slot took the record that a
\* reset_catch_set still running stored in between, while another
\* reset_catch_clear got the default
C17_Witness ==
    /\ InHook(ctx[1], "reset_catch_set") /\ ctx[1].stored /\ ctx[1].pc # "done"
    /\ InHook(ctx[3], "reset_catch_clear") /\ ctx[3].pc # "cc_take"
    /\ ctx[3].entry_state = None
    /\ ctx[3].original_state = RecordReadBy(ctx[1])
    /\ ctx[3].original_state # HaltAfterResetState_default
    /\ InHook(ctx[2], "reset_catch_clear") /\ ctx[2].pc # "cc_take"
    /\ ctx[2].original_state = HaltAfterResetState_default

---------------------------------------------------------------------------
(* C18                                                                     *)

\* C18: a reset_catch_set that fails.  When the call fails at the read or
\* the write of the boot-configuration word, at the read of the vector slot
\* (or on the entry-address addition), or at either breakpoint register read,
\* the slot is exactly what it was when the call was entered.  When it fails
\* later (the control write, the encoding, the comparator write, the flush)
\* the slot holds the record the call just read from the two registers, so
\* that a reset_system that follows waits for the halt.
C18_FailedCatchSet ==
    \A t \in Contexts :
      LET c == ctx[t]
          n == Len(c.log)
          last == c.log[n]
          early == \/ c.result = "Panic"
                   \/ /\ c.result = "Transport"
                      /\ \/ last.addr \in {Stcon_ADDRESS, VECTOR_ADDRESS}
                         \/ last.op = "read" /\ last.addr \in {FpCtrl_ADDRESS,
                                                               FpRev1CompX_ADDRESS}
          late  == \/ c.result \in {"UnsupportedAddress", "UnsupportedRevision"}
                   \/ /\ c.result = "Transport"
                      /\ \/ last.op = "flush"
                         \/ last.op = "write" /\ last.addr \in {FpCtrl_ADDRESS,
                                                                FpRev1CompX_ADDRESS}
      IN  (InHook(c, "reset_catch_set") /\ c.pc = "done" /\ c.result # "Ok") =>
            /\ early \/ late
            /\ early => ~c.stored /\ halt_after_reset_state = c.entry_state
            /\ late => /\ c.stored
                       /\ halt_after_reset_state = Some(RecordReadBy(c))
                       /\ HaltWanted(halt_after_reset_state)

\* the flush failed on a call entered with the slot empty: the slot now
\* holds a record
C18_Witness ==
    \E t \in Contexts :
      LET c == ctx[t]
      IN  /\ Returned(c, "reset_catch_set", "Transport")
          /\ c.log[Len(c.log)].op = "flush"
          /\ c.entry_state = None
          /\ halt_after_reset_state # None

---------------------------------------------------------------------------
(* C19                                                                     *)

\* C19: reset_catch_clear empties the slot first.  No operation reaches the
\* target before the take, and from the take on the slot is empty, whether
\* the call then returns Ok or a transport error.  A call entered with the
\* slot empty writes the control register with the key bit set and the
\* enable bit clear, and writes 0 to comparator 0.
C19_ClearEmptiesSlotFirst ==
    \A t \in Contexts :
      LET c == ctx[t]
          wctrl == OpsAt(c, "write", FpCtrl_ADDRESS)
          wcomp == OpsAt(c, "write", FpRev1CompX_ADDRESS)
      IN  InHook(c, "reset_catch_clear") =>
            /\ c.pc = "cc_take" => c.log = <<>>
            /\ c.pc # "cc_take" => halt_after_reset_state = None
            /\ c.pc = "done" => c.result \in {"Ok", "Transport"}
            /\ (c.entry_state = None /\ c.pc # "cc_take") =>
                 /\ \A w \in wctrl : c.log[w].val = W(0, 2)
                 /\ \A w \in wcomp : c.log[w].val = Zero32
                 /\ Returned(c, "reset_catch_clear", "Ok") =>
                      wctrl = {1} /\ wcomp = {2}

\* a call entered with the slot empty has made both writes and returned Ok
C19_Witness ==
    \E t \in Contexts :
      /\ Returned(ctx[t], "reset_catch_clear", "Ok")
      /\ ctx[t].entry_state = None
      /\ Len(ctx[t].log) = 2

---------------------------------------------------------------------------
(* C20                                                                     *)

\* C20: no overflow in the entry-address computation.  For every word v the
\* vector-slot read returns, 0xFFFF_FFFF included, reset_catch_set goes on
\* with an application_entry that is the integer v + 1, below 2^32: the
\* addition neither fails nor wraps.
C20_EntryAddressNeverOverflows ==
    \A t \in Contexts :
      LET c == ctx[t]
          v == c.vector
      IN  (InHook(c, "reset_catch_set") /\ ReadsOk(c, VECTOR_ADDRESS) # {}) =>
            /\ c.result # "Panic"
            /\ IF v.lo < Half - 1
                 THEN c.application_entry = W(v.hi, v.lo + 1)
                 ELSE v.hi < Half - 1 /\ c.application_entry = W(v.hi + 1, 0)

====
